---- MODULE Spec2Model ----
(***************************************************************************)
(* State-based OR-Set (Observed-Remove Set) of crdt.h: a group of replicas *)
(* that add, remove and merge, and the properties of those operations.     *)
(***************************************************************************)
EXTENDS Integers, FiniteSets, Sequences, Bags, TLC

\* ---------------------------------------------------------------- bounds
\* Replica ids (constructor argument of ORSet) and element strings used.
Replicas == {"A", "B", "C"}
Elements == {"apple", "item2"}
\* The element of the scenarios that follow one element through several steps.
ScenarioElements == {"apple"}
\* Cap on the total number of add calls in a behaviour.
MaxAdds == 3

VARIABLES
    local_counter,   \* [Replicas -> Nat]                ORSet::local_counter
    internal_set,    \* [Replicas -> SUBSET TaggedEntry] ORSet::internal_set
    element_cache,   \* [Replicas -> SUBSET Elements]    ORSet::element_cache
    \* history variables (not read by any operation)
    addCalls,        \* [Replicas -> Nat] number of add calls executed per replica
    issued,          \* bag of the entries created by add calls
    lastMutUnion,    \* union of all stores right after the latest add/remove
    removedAll,      \* <<r, x>>: r removed x holding every tag of x, no add(x) since
    aw,              \* progress of the remove / concurrent add / merge scenario
    walk             \* number of steps of the two-replica walkthrough executed so far

progVars == <<local_counter, internal_set, element_cache>>
histVars == <<addCalls, issued, lastMutUnion, removedAll, aw, walk>>
vars == <<local_counter, internal_set, element_cache,
          addCalls, issued, lastMutUnion, removedAll, aw, walk>>

\* ------------------------------------------------------------ data types
\* struct Tag { string replica_id; uint64_t counter; }
Tag(id, c) == [replica_id |-> id, counter |-> c]

\* pair<string, Tag>, the value type of internal_set
Entry(e, t) == [element |-> e, tag |-> t]

\* The object of replica r as a record of its four fields.
ORSet(r) ==
    [replica_id    |-> r,
     local_counter |-> local_counter[r],
     internal_set  |-> internal_set[r],
     element_cache |-> element_cache[r]]

\* ORSet(const string& id): counter 0, empty containers.
NewORSet(id) ==
    [replica_id |-> id, local_counter |-> 0,
     internal_set |-> {}, element_cache |-> {}]

\* ------------------------------------------------------------ operations
\* The tag the next add of S creates: local_counter++; Tag tag{replica_id, local_counter}
add_tag(S) == Tag(S.replica_id, S.local_counter + 1)

\* add that builds the tag but does not keep the incremented counter.
add_noIncrement(S, element) ==
    [S EXCEPT !.internal_set  = S.internal_set \cup {Entry(element, add_tag(S))},
              !.element_cache = S.element_cache \cup {element}]

\* add that inserts the entry but not the element into the cache.
add_noCache(S, element) ==
    [S EXCEPT !.local_counter = S.local_counter + 1,
              !.internal_set  = S.internal_set \cup {Entry(element, add_tag(S))}]

\* add that builds the tag from the counter before incrementing it.
add_tagBeforeIncrement(S, element) ==
    [S EXCEPT !.local_counter = S.local_counter + 1,
              !.internal_set  = S.internal_set
                                  \cup {Entry(element, Tag(S.replica_id, S.local_counter))},
              !.element_cache = S.element_cache \cup {element}]

\* void add(const string& element)
add(S, element) ==
    LET tag == add_tag(S)
    IN  [S EXCEPT !.local_counter = tag.counter,
                  !.internal_set  = S.internal_set \cup {Entry(element, tag)},
                  !.element_cache = S.element_cache \cup {element}]

\* remove that erases the entries but leaves the cache as it was.
remove_keepCache(S, element) ==
    [S EXCEPT !.internal_set = {p \in S.internal_set : p.element # element}]

\* remove that takes a tag from the counter for the remove event.
remove_bumpCounter(S, element) ==
    [S EXCEPT !.local_counter = S.local_counter + 1,
              !.internal_set  = {p \in S.internal_set : p.element # element},
              !.element_cache = S.element_cache \ {element}]

\* remove that erases only the entries tagged by the own replica.
remove_ownTagsOnly(S, element) ==
    LET erased == {p \in S.internal_set :
                      ~(p.element = element /\ p.tag.replica_id = S.replica_id)}
    IN  [S EXCEPT !.internal_set  = erased,
                  !.element_cache = IF \E p \in erased : p.element = element
                                    THEN S.element_cache
                                    ELSE S.element_cache \ {element}]

\* void remove(const string& element)
remove(S, element) ==
    LET tags_to_remove == {p.tag : p \in {q \in S.internal_set : q.element = element}}
        erased         == S.internal_set \ {Entry(element, t) : t \in tags_to_remove}
        still_exists   == \E p \in erased : p.element = element
    IN  [S EXCEPT !.internal_set  = erased,
                  !.element_cache = IF ~still_exists
                                    THEN S.element_cache \ {element}
                                    ELSE S.element_cache]

\* merge that inserts the entries but does not update the cache.
merge_noCache(S, other) ==
    [S EXCEPT !.internal_set = S.internal_set \cup other.internal_set]

\* merge that overwrites the own containers by the other's.
merge_assign(S, other) ==
    [S EXCEPT !.internal_set  = other.internal_set,
              !.element_cache = other.element_cache]

\* merge that counts itself as an event of the replica.
merge_bumpCounter(S, other) ==
    [S EXCEPT !.local_counter = S.local_counter + 1,
              !.internal_set  = S.internal_set \cup other.internal_set,
              !.element_cache = S.element_cache \cup other.element_cache]

\* merge that also adopts the larger of the two counters.
merge_adoptCounter(S, other) ==
    [S EXCEPT !.local_counter = IF other.local_counter > S.local_counter
                                THEN other.local_counter ELSE S.local_counter,
              !.internal_set  = S.internal_set \cup other.internal_set,
              !.element_cache = S.element_cache \cup other.element_cache]

\* merge that skips incoming entries carrying a tag of the own replica.
merge_skipOwn(S, other) ==
    LET incoming == {p \in other.internal_set : p.tag.replica_id # S.replica_id}
    IN  [S EXCEPT !.internal_set  = S.internal_set \cup incoming,
                  !.element_cache = S.element_cache \cup {p.element : p \in incoming}]

\* merge that skips the entries of elements the replica already has.
merge_skipKnown(S, other) ==
    LET incoming == {p \in other.internal_set : p.element \notin S.element_cache}
    IN  [S EXCEPT !.internal_set  = S.internal_set \cup incoming,
                  !.element_cache = S.element_cache \cup other.element_cache]

\* void merge(const ORSet& other)
merge(S, other) ==
    [S EXCEPT !.internal_set  = S.internal_set \cup other.internal_set,
              !.element_cache = S.element_cache \cup other.element_cache]

\* bool contains(const string& element) const
contains(S, element) == element \in S.element_cache

\* set<string> elements() const
elements(S) == S.element_cache

\* size_t size() const
size(S) == Cardinality(S.element_cache)

\* size_t internal_size() const
internal_size(S) == Cardinality(S.internal_set)

\* uint64_t get_counter() const
get_counter(S) == S.local_counter

\* --------------------------------------------------------------- actions
\* Write-back with the cache as one container shared by all replicas.
Store_sharedCache(r, S) ==
    /\ local_counter' = [local_counter EXCEPT ![r] = S.local_counter]
    /\ internal_set'  = [internal_set  EXCEPT ![r] = S.internal_set]
    /\ element_cache' = [o \in Replicas |-> S.element_cache]

\* Writes the object S back as the state of replica r.
Store(r, S) ==
    /\ local_counter' = [local_counter EXCEPT ![r] = S.local_counter]
    /\ internal_set'  = [internal_set  EXCEPT ![r] = S.internal_set]
    /\ element_cache' = [element_cache EXCEPT ![r] = S.element_cache]

RECURSIVE SumCounters(_)
SumCounters(R) ==
    IF R = {} THEN 0
    ELSE LET r == CHOOSE x \in R : TRUE
         IN  local_counter[r] + SumCounters(R \ {r})

\* Entries of element x in a store.
EntriesOf(store, x) == {p \in store : p.element = x}

\* Union of the stores of all replicas, for a function [Replicas -> store].
AllEntries(sets) == UNION {sets[r] : r \in Replicas}

\* ---- history of the add-wins scenario: R1.remove(x); R2.add(x); merges
NoAW == [ph |-> 0, r1 |-> "", r2 |-> "", x |-> "", m12 |-> FALSE, m21 |-> FALSE]

\* remove(x) on r starts the scenario with R1 = r, unless r is a bystander
\* of a scenario already past R2's add.
AWOnRemove(r, e) ==
    IF aw.ph = 2 /\ r \notin {aw.r1, aw.r2}
    THEN aw
    ELSE [NoAW EXCEPT !.ph = 1, !.r1 = r, !.x = e]

\* add(x) on another replica after R1's remove makes that replica R2.
AWOnAdd(r, e) ==
    IF aw.ph = 1 /\ aw.x = e /\ aw.r1 # r
    THEN [aw EXCEPT !.ph = 2, !.r2 = r]
    ELSE aw

\* The two merges between R1 and R2 are recorded; a replica that merges R1's
\* state before any concurrent add ends the scenario.
AWOnMerge(r, s) ==
    IF aw.ph = 2 /\ r = aw.r1 /\ s = aw.r2 THEN [aw EXCEPT !.m12 = TRUE]
    ELSE IF aw.ph = 2 /\ r = aw.r2 /\ s = aw.r1 THEN [aw EXCEPT !.m21 = TRUE]
    ELSE IF aw.ph = 1 /\ s = aw.r1 THEN NoAW
    ELSE aw

\* ---- history of the walkthrough of crdt.cpp (steps 1-7 and main)
Walkthrough ==
    << [op |-> "add",    r |-> "A", e |-> "apple", s |-> ""],
       [op |-> "add",    r |-> "B", e |-> "apple", s |-> ""],
       [op |-> "merge",  r |-> "A", e |-> "",      s |-> "B"],
       [op |-> "merge",  r |-> "B", e |-> "",      s |-> "A"],
       [op |-> "remove", r |-> "A", e |-> "apple", s |-> ""],
       [op |-> "add",    r |-> "B", e |-> "apple", s |-> ""],
       [op |-> "merge",  r |-> "B", e |-> "",      s |-> "A"],
       [op |-> "merge",  r |-> "A", e |-> "",      s |-> "B"] >>

OffScript == 0 - 1

WalkOn(o) ==
    IF walk # OffScript /\ walk < Len(Walkthrough) /\ Walkthrough[walk + 1] = o
    THEN walk + 1
    ELSE OffScript

Init ==
    /\ local_counter = [r \in Replicas |-> NewORSet(r).local_counter]
    /\ internal_set  = [r \in Replicas |-> NewORSet(r).internal_set]
    /\ element_cache = [r \in Replicas |-> NewORSet(r).element_cache]
    /\ addCalls = [r \in Replicas |-> 0]
    /\ issued = EmptyBag
    /\ lastMutUnion = {}
    /\ removedAll = {}
    /\ aw = NoAW
    /\ walk = 0

\* ---- the calls enumerated: replica ids and element strings are opaque to
\* ORSet, so behaviours are enumerated up to renaming. The replicas make their
\* first add in the order A, B, C and the elements are first added in the
\* order apple, item2; remove and merge are enumerated for all of them.
ReplicaOrder == <<"A", "B", "C">>
ElementOrder == <<"apple", "item2">>

Adders ==
    {ReplicaOrder[i] : i \in {j \in 1..Len(ReplicaOrder) :
        \A k \in 1..(j - 1) : local_counter[ReplicaOrder[k]] > 0}}

Addable ==
    {ElementOrder[i] : i \in {j \in 1..Len(ElementOrder) :
        \A k \in 1..(j - 1) :
            \E p \in BagToSet(issued) : p.element = ElementOrder[k]}}

\* ---- the three operations as steps of replica r
AddStep(r, e) ==
    /\ SumCounters(Replicas) < MaxAdds
    /\ Store(r, add(ORSet(r), e))
    /\ addCalls' = [addCalls EXCEPT ![r] = @ + 1]
    /\ issued' = issued (+) SetToBag({Entry(e, add_tag(ORSet(r)))})
    /\ lastMutUnion' = AllEntries(internal_set')

RemoveStep(r, e) ==
    /\ Store(r, remove(ORSet(r), e))
    /\ lastMutUnion' = AllEntries(internal_set')
    /\ UNCHANGED <<addCalls, issued>>

MergeStep(r, s) ==
    /\ r # s
    /\ Store(r, merge(ORSet(r), ORSet(s)))
    /\ UNCHANGED <<addCalls, issued, lastMutUnion>>

\* ---- Spec: any interleaving of the operations on the replicas
Add(r, e) ==
    /\ AddStep(r, e)
    /\ walk' = WalkOn([op |-> "add", r |-> r, e |-> e, s |-> ""])
    /\ UNCHANGED <<removedAll, aw>>

Remove(r, e) ==
    /\ RemoveStep(r, e)
    /\ walk' = WalkOn([op |-> "remove", r |-> r, e |-> e, s |-> ""])
    /\ UNCHANGED <<removedAll, aw>>

Merge(r, s) ==
    /\ MergeStep(r, s)
    /\ walk' = WalkOn([op |-> "merge", r |-> r, e |-> "", s |-> s])
    /\ UNCHANGED <<removedAll, aw>>

Next ==
    \/ \E r \in Adders, e \in Addable : Add(r, e)
    \/ \E r \in Replicas, e \in Elements : Remove(r, e)
    \/ \E r \in Replicas, s \in Replicas : Merge(r, s)

Spec == Init /\ [][Next]_vars

\* ---- SpecAddWins: the same interleavings, recording the add-wins scenario
AddAW(r, e) ==
    /\ AddStep(r, e)
    /\ aw' = AWOnAdd(r, e)
    /\ UNCHANGED <<removedAll, walk>>

RemoveAW(r, e) ==
    /\ RemoveStep(r, e)
    /\ aw' = AWOnRemove(r, e)
    /\ UNCHANGED <<removedAll, walk>>

MergeAW(r, s) ==
    /\ MergeStep(r, s)
    /\ aw' = AWOnMerge(r, s)
    /\ UNCHANGED <<removedAll, walk>>

NextAddWins ==
    \/ \E r \in Adders, e \in ScenarioElements : AddAW(r, e)
    \/ \E r \in Replicas, e \in ScenarioElements : RemoveAW(r, e)
    \/ \E r \in Replicas, s \in Replicas : MergeAW(r, s)

SpecAddWins == Init /\ [][NextAddWins]_vars

\* ---- SpecRemoved: the same interleavings, recording fully observed removes
AddRA(r, e) ==
    /\ AddStep(r, e)
    /\ removedAll' = {p \in removedAll : p[2] # e}
    /\ UNCHANGED <<aw, walk>>

RemoveRA(r, e) ==
    /\ RemoveStep(r, e)
    /\ removedAll' = IF EntriesOf(AllEntries(internal_set), e) \subseteq internal_set[r]
                     THEN removedAll \cup {<<r, e>>}
                     ELSE removedAll \ {<<r, e>>}
    /\ UNCHANGED <<aw, walk>>

MergeRA(r, s) ==
    /\ MergeStep(r, s)
    /\ UNCHANGED <<removedAll, aw, walk>>

NextRemoved ==
    \/ \E r \in Adders, e \in ScenarioElements : AddRA(r, e)
    \/ \E r \in Replicas, e \in ScenarioElements : RemoveRA(r, e)
    \/ \E r \in Replicas, s \in Replicas : MergeRA(r, s)

SpecRemoved == Init /\ [][NextRemoved]_vars

\* ------------------------------------------------------------ properties
\* Entries created by add calls so far, removed or not.
IssuedEntries == BagToSet(issued)

\* r has executed an effective remove: an entry it created is gone from its store.
HasRemoved(r) ==
    \E p \in IssuedEntries : p.tag.replica_id = r /\ p \notin internal_set[r]

\* r has executed an effective merge: it holds an entry another replica created.
HasMerged(r) ==
    \E p \in internal_set[r] : p.tag.replica_id # r

\* No merge between two replicas changes the merging replica.
Quiescent ==
    \A r \in Replicas, s \in Replicas :
        r # s => merge(ORSet(r), ORSet(s)) = ORSet(r)

\* C1 (add-wins): when R1 has executed remove(x), R2 has then executed add(x)
\* without having merged R1's state in between, and R1.merge(R2) and
\* R2.merge(R1) have both been executed since, in either order and with no
\* later remove on R1 or R2, contains(x) is true on R1 and on R2.
C1_AddWins ==
    (aw.ph = 2 /\ aw.m12 /\ aw.m21) =>
        /\ contains(ORSet(aw.r1), aw.x)
        /\ contains(ORSet(aw.r2), aw.x)

\* The scenario has run to its end after a remove that erased entries: R1
\* holds again an entry of x created before its remove next to R2's new tag.
C1_Witness ==
    /\ aw.ph = 2 /\ aw.m12 /\ aw.m21
    /\ local_counter[aw.r2] >= 2
    /\ Cardinality(EntriesOf(internal_set[aw.r1], aw.x)) >= 2
    /\ contains(ORSet(aw.r1), aw.x)

\* C2 (I1, cache consistency): in every reachable state the element cache of
\* every replica is exactly the set of elements that have an entry in its
\* store, so contains(e) is true iff the store holds an entry of e.
C2_CacheConsistency ==
    \A r \in Replicas :
        /\ element_cache[r] = {p.element : p \in internal_set[r]}
        /\ \A e \in Elements :
              contains(ORSet(r), e) <=> (\E p \in internal_set[r] : p.element = e)

\* A replica that has added, removed and merged, with one element present and
\* one absent.
C2_Witness ==
    \E r \in Replicas :
        /\ local_counter[r] > 0 /\ HasRemoved(r) /\ HasMerged(r)
        /\ element_cache[r] # {} /\ element_cache[r] # Elements

\* C3 (a removed element stays removed): when r executed remove(x) while its
\* store held every tag of x existing at any replica, no add(x) was executed
\* since, and the replicas have merged until no merge changes any of them,
\* contains(x) is false on r.
C3_RemovedStaysRemoved ==
    \A p \in removedAll :
        Quiescent => ~contains(ORSet(p[1]), p[2])

\* C4 (walkthrough end state): after the eight steps of the walkthrough both
\* stores are exactly {("apple", (B,2))}.
C4_WalkthroughEndState ==
    walk = Len(Walkthrough) =>
        /\ internal_set["A"] = {Entry("apple", Tag("B", 2))}
        /\ internal_set["B"] = {Entry("apple", Tag("B", 2))}

\* C5 (convergence): once no merge changes any replica, all replicas hold the
\* same store and report the same elements(), and that store is the union of
\* the stores as they were after the latest add or remove, whatever merges
\* were executed since and in whatever order.
C5_Convergence ==
    Quiescent =>
        \A r \in Replicas :
            /\ \A s \in Replicas :
                  /\ internal_set[r] = internal_set[s]
                  /\ elements(ORSet(r)) = elements(ORSet(s))
            /\ internal_set[r] = lastMutUnion
            /\ elements(ORSet(r)) = {p.element : p \in lastMutUnion}

\* Converged replicas holding entries created by two replicas, after a remove.
C5_Witness ==
    /\ Quiescent
    /\ Cardinality({p.tag.replica_id : p \in lastMutUnion}) >= 2
    /\ \E r \in Replicas : HasRemoved(r) /\ HasMerged(r)
    /\ IssuedEntries # lastMutUnion

\* C6 (merge is idempotent): A.merge(B); A.merge(B) leaves A in the same state
\* (store, elements(), size(), counter) as a single A.merge(B).
C6_MergeIdempotent ==
    \A r \in Replicas, s \in Replicas :
        r # s =>
            LET once  == merge(ORSet(r), ORSet(s))
                twice == merge(once, ORSet(s))
            IN  /\ twice.internal_set = once.internal_set
                /\ elements(twice) = elements(once)
                /\ size(twice) = size(once)
                /\ internal_size(twice) = internal_size(once)
                /\ get_counter(twice) = get_counter(once)
                /\ twice = once

\* A merge that changes the store and the cache of the merging replica is
\* possible, on a replica that has merged before.
C6_Witness ==
    \E r \in Replicas, s \in Replicas :
        /\ r # s /\ HasMerged(r) /\ local_counter[r] > 0
        /\ ~(internal_set[s] \subseteq internal_set[r])
        /\ ~(element_cache[s] \subseteq element_cache[r])
        /\ internal_set[r] # {}

\* C7 (merge is commutative): A after A.merge(B) and B after B.merge(A2), A2 a
\* copy of A taken before, have the same store, elements() and size(); both
\* are the union of the two states before the merge.
C7_MergeCommutative ==
    \A r \in Replicas, s \in Replicas :
        r # s =>
            LET ab == merge(ORSet(r), ORSet(s))
                ba == merge(ORSet(s), ORSet(r))
            IN  /\ ab.internal_set = ba.internal_set
                /\ elements(ab) = elements(ba)
                /\ size(ab) = size(ba)
                /\ ab.internal_set = internal_set[r] \cup internal_set[s]
                /\ elements(ab) = elements(ORSet(r)) \cup elements(ORSet(s))

\* Two replicas whose stores and caches are incomparable.
C7_Witness ==
    \E r \in Replicas, s \in Replicas :
        /\ ~(internal_set[s] \subseteq internal_set[r])
        /\ ~(internal_set[r] \subseteq internal_set[s])
        /\ ~(element_cache[s] \subseteq element_cache[r])
        /\ ~(element_cache[r] \subseteq element_cache[s])

\* C8 (merge is associative): for three replica states A, B, C, merging B and
\* then C into A gives the same store and elements() as merging C into B and
\* the result into A, and as merging C and then B into A.
C8_MergeAssociative ==
    \A a \in Replicas, b \in Replicas, c \in Replicas :
        (a # b /\ b # c /\ a # c) =>
            LET left  == merge(merge(ORSet(a), ORSet(b)), ORSet(c))
                right == merge(ORSet(a), merge(ORSet(b), ORSet(c)))
                swap  == merge(merge(ORSet(a), ORSet(c)), ORSet(b))
            IN  /\ left.internal_set = right.internal_set
                /\ elements(left) = elements(right)
                /\ left.internal_set = swap.internal_set
                /\ elements(left) = elements(swap)

\* Three replicas with pairwise incomparable stores, one of them holding an
\* entry whose creator has removed it.
C8_Witness ==
    /\ \A r \in Replicas, s \in Replicas :
          r # s => ~(internal_set[s] \subseteq internal_set[r])
    /\ \E r \in Replicas :
          \E p \in internal_set[r] :
              p.tag.replica_id # r /\ p \notin internal_set[p.tag.replica_id]

\* C9 (no duplicate tags): no two add calls have created the same tag, removed
\* entries included; every stored entry was created by an add; and no two
\* stored entries anywhere share a tag.
C9_NoDuplicateTags ==
    /\ \A p \in IssuedEntries :
          /\ issued[p] = 1
          /\ \A q \in IssuedEntries : q.tag = p.tag => q = p
    /\ \A r \in Replicas : internal_set[r] \subseteq IssuedEntries
    /\ \A r \in Replicas, s \in Replicas :
          \A p \in internal_set[r], q \in internal_set[s] :
              p.tag = q.tag => p.element = q.element

\* A replica added again after its earlier entry was removed everywhere, and
\* entries of two elements have been created.
C9_Witness ==
    /\ \E p \in IssuedEntries, q \in IssuedEntries :
          /\ p.tag.replica_id = q.tag.replica_id
          /\ p.tag.counter < q.tag.counter
          /\ p.element = q.element
          /\ p \notin AllEntries(internal_set)
          /\ q \in AllEntries(internal_set)
    /\ Cardinality({p.element : p \in IssuedEntries}) >= 2

\* C10 (counter counts adds): the counter of every replica equals the number
\* of add calls executed on it; it is 0 before the first add and remove and
\* merge leave it alone.
C10_CounterCountsAdds ==
    \A r \in Replicas : get_counter(ORSet(r)) = addCalls[r]

\* A replica with two adds that has also removed and merged, next to a
\* replica with a different counter.
C10_Witness ==
    \E r \in Replicas, s \in Replicas :
        /\ get_counter(ORSet(r)) = 2 /\ HasRemoved(r) /\ HasMerged(r)
        /\ get_counter(ORSet(s)) = 1 /\ HasMerged(s)

\* C11 (remove of an absent element): remove(x) on a replica that holds no
\* entry of x leaves its store, cache, size(), internal_size() and counter as
\* they were.
C11_RemoveAbsentNoOp ==
    \A r \in Replicas, e \in Elements :
        EntriesOf(internal_set[r], e) = {} =>
            LET after == remove(ORSet(r), e)
            IN  /\ after.internal_set = internal_set[r]
                /\ after.element_cache = element_cache[r]
                /\ get_counter(after) = local_counter[r]
                /\ size(after) = size(ORSet(r))
                /\ internal_size(after) = internal_size(ORSet(r))
                /\ after = ORSet(r)

\* A replica that has fully removed an element it had added (a further remove
\* of it finds no entry) and holds the other element, next to a replica that
\* never held anything.
C11_Witness ==
    \E r \in Replicas, e \in Elements :
        /\ EntriesOf(internal_set[r], e) = {}
        /\ \E p \in IssuedEntries : p.tag.replica_id = r /\ p.element = e
        /\ internal_set[r] # {}
        /\ \E o \in Replicas : local_counter[o] = 0 /\ internal_set[o] = {}

\* The counter, store or cache of replica o differs between the two states
\* of a step.
Changed(o) ==
    \/ local_counter'[o] # local_counter[o]
    \/ internal_set'[o] # internal_set[o]
    \/ element_cache'[o] # element_cache[o]

\* C12 (replica isolation): a step of add, remove or merge on replica r leaves
\* the counter, store and cache of every other replica unchanged, the source
\* of a merge included: a step that changes replica o is no operation of
\* another replica.
C12_ReplicaIsolation ==
    [][\A o \in Replicas :
          Changed(o) =>
              \A r \in Replicas \ {o} :
                  /\ \A e \in ScenarioElements : ~AddRA(r, e) /\ ~RemoveRA(r, e)
                  /\ \A s \in Replicas : ~MergeRA(r, s)]_vars

\* A replica has removed an entry that another replica still holds, and a
\* merge source still lacks what the merging replica holds.
C12_Witness ==
    \E r \in Replicas, o \in Replicas :
        /\ r # o /\ HasRemoved(r) /\ HasMerged(o)
        /\ \E p \in internal_set[o] : p.tag.replica_id = r /\ p \notin internal_set[r]
        /\ element_cache[o] # element_cache[r]
        /\ local_counter[o] # local_counter[r]

\* C13 (size counts distinct elements): size() is the number of elements
\* returned by elements(), which is the number of distinct elements in the
\* store however many tags each has; after A.add(x), B.add(x), A.merge(B),
\* B.merge(A) on fresh replicas size() is 1 and internal_size() is 2 on both.
C13_SizeCountsElements ==
    /\ \A r \in Replicas :
          /\ size(ORSet(r)) = Cardinality(elements(ORSet(r)))
          /\ size(ORSet(r)) = Cardinality({p.element : p \in internal_set[r]})
    /\ walk = 4 =>
          \A r \in {"A", "B"} :
              size(ORSet(r)) = 1 /\ internal_size(ORSet(r)) = 2

\* The first four steps of the walkthrough have run: one element, two tags.
C13_Witness ==
    /\ walk = 4
    /\ internal_size(ORSet("A")) = 2 /\ internal_size(ORSet("B")) = 2
    /\ elements(ORSet("A")) = {"apple"} /\ elements(ORSet("B")) = {"apple"}

\* C14 (effect of merge): after A.merge(B) the store of A is exactly the union
\* of A's store before and B's store, elements() is the union of the two
\* elements() and covers every element of the unioned store.
C14_MergeEffect ==
    \A r \in Replicas, s \in Replicas :
        r # s =>
            LET after == merge(ORSet(r), ORSet(s))
            IN  /\ after.internal_set \subseteq internal_set[r] \cup internal_set[s]
                /\ internal_set[r] \subseteq after.internal_set
                /\ internal_set[s] \subseteq after.internal_set
                /\ elements(after) = elements(ORSet(r)) \cup elements(ORSet(s))
                /\ elements(after) = {p.element : p \in after.internal_set}
                /\ get_counter(after) = local_counter[r]

\* A replica that has removed and merged before faces a source whose store
\* overlaps its own, each holding an entry the other lacks, for an element
\* both have.
C14_Witness ==
    \E r \in Replicas, s \in Replicas :
        /\ r # s /\ HasRemoved(r) /\ HasMerged(r)
        /\ internal_set[r] \cap internal_set[s] # {}
        /\ \E p \in internal_set[s] \ internal_set[r] : p.element \in element_cache[r]
        /\ internal_set[r] \ internal_set[s] # {}

\* C15 (effect of remove): after remove(x) the store holds no entry of x,
\* contains(x) is false, and exactly the entries of x are gone: every entry
\* and the membership of every other element are as before.
C15_RemoveEffect ==
    \A r \in Replicas, x \in Elements :
        LET after == remove(ORSet(r), x)
        IN  /\ EntriesOf(after.internal_set, x) = {}
            /\ ~contains(after, x)
            /\ \A p \in internal_set[r] : p.element # x => p \in after.internal_set
            /\ after.internal_set = internal_set[r] \ EntriesOf(internal_set[r], x)
            /\ \A y \in Elements \ {x} : contains(after, y) <=> contains(ORSet(r), y)
            /\ get_counter(after) = local_counter[r]

\* A replica holds two entries of x next to an entry of another element; one
\* of the entries of x was created by another replica, which has removed it.
C15_Witness ==
    \E r \in Replicas, x \in Elements :
        /\ Cardinality(EntriesOf(internal_set[r], x)) >= 2
        /\ \E p \in EntriesOf(internal_set[r], x) :
              /\ p.tag.replica_id # r
              /\ p \notin internal_set[p.tag.replica_id]
              /\ ~contains(ORSet(p.tag.replica_id), x)
        /\ \E p \in internal_set[r] : p.element # x

\* C16 (effect of add): add(x) on replica r inserts exactly the entry
\* (x, (r, counter + 1)), which the store did not hold, so internal_size()
\* grows by 1 and contains(x) is true; size() grows by 1 iff x was absent.
C16_AddEffect ==
    \A r \in Replicas, x \in Elements :
        LET after == add(ORSet(r), x)
            new   == Entry(x, Tag(r, local_counter[r] + 1))
        IN  /\ new \notin internal_set[r]
            /\ after.internal_set = internal_set[r] \cup {new}
            /\ internal_size(after) = internal_size(ORSet(r)) + 1
            /\ get_counter(after) = local_counter[r] + 1
            /\ contains(after, x)
            /\ size(after) = size(ORSet(r)) + (IF contains(ORSet(r), x) THEN 0 ELSE 1)
            /\ elements(after) = elements(ORSet(r)) \cup {x}

\* A replica holds two entries of one element that it created itself by two
\* add calls, and its size() is 1.
C16_Witness ==
    \E r \in Replicas :
        /\ \E p \in internal_set[r], q \in internal_set[r] :
              /\ p # q /\ p.element = q.element
              /\ p.tag.replica_id = r /\ q.tag.replica_id = r
        /\ size(ORSet(r)) = 1
        /\ local_counter[r] >= 2

\* C17 (I3, store monotonicity): a step in which the store of replica r loses
\* an entry is a remove step of r and neither an add nor a merge step of r;
\* add and merge steps leave the store before a subset of the store after.
C17_StoreMonotonic ==
    [][\A r \in Replicas :
          ~(internal_set[r] \subseteq internal_set'[r]) =>
              /\ \E e \in Elements : Remove(r, e)
              /\ \A e \in Elements : ~Add(r, e)
              /\ \A s \in Replicas : ~Merge(r, s)]_vars

\* A replica whose store shrank by a remove and grew by adds and a merge.
C17_Witness ==
    \E r \in Replicas :
        /\ HasRemoved(r) /\ HasMerged(r)
        /\ local_counter[r] >= 2
        /\ \E p \in internal_set[r] : p.tag.replica_id = r

\* C18 (I4, re-appearance of removed tags): an entry created earlier that is
\* not in the store of replica r (so every entry r has removed) enters that
\* store only by a step r.merge(s) whose source s holds it; no add on any
\* replica puts it back.
C18_ReappearOnlyByMerge ==
    [][\A r \in Replicas :
          \A p \in IssuedEntries :
              (p \notin internal_set[r] /\ p \in internal_set'[r]) =>
                  /\ \E s \in Replicas : MergeRA(r, s) /\ p \in internal_set[s]
                  /\ \A o \in Replicas, e \in ScenarioElements : ~AddRA(o, e)]_vars

\* A replica removed x while holding every tag of x, no add(x) followed, and
\* it holds an entry of x again.
C18_Witness ==
    \E q \in removedAll :
        /\ EntriesOf(internal_set[q[1]], q[2]) # {}
        /\ contains(ORSet(q[1]), q[2])

\* C19 (removes do not propagate through merge): contains(x) on replica r
\* turns from true to false only in a remove(x) step of r, never in a merge
\* step of r, whatever the source has removed.
C19_MergeKeepsMembership ==
    [][\A r \in Replicas, x \in Elements :
          (contains(ORSet(r), x) /\ x \notin element_cache'[r]) =>
              /\ Remove(r, x)
              /\ \A s \in Replicas : ~Merge(r, s)]_vars

\* Step 7 of the walkthrough has run: B has merged A after A removed apple
\* having observed (B,1); B still holds (B,1) and contains apple, A does not.
C19_Witness ==
    /\ walk = 7
    /\ contains(ORSet("B"), "apple")
    /\ Entry("apple", Tag("B", 1)) \in internal_set["B"]
    /\ ~contains(ORSet("A"), "apple")
    /\ internal_set["A"] = {}

\* C20 (tag provenance): every entry (e, (r, c)) in any store carries the id
\* of a replica and 1 <= c <= local_counter of that replica.
C20_TagProvenance ==
    \A r \in Replicas :
        \A p \in internal_set[r] :
            /\ p.tag.replica_id \in Replicas
            /\ 1 <= p.tag.counter
            /\ p.tag.counter <= local_counter[p.tag.replica_id]

\* A replica holds the latest tag of another replica, which has removed it.
C20_Witness ==
    \E r \in Replicas, s \in Replicas :
        /\ r # s /\ local_counter[r] = 2
        /\ \E p \in internal_set[s] :
              /\ p.tag = Tag(r, 2)
              /\ p \notin internal_set[r]
====
